---- MODULE Spec2Model ----
(***************************************************************************)
(* smooth-bevy-cameras: LookAngles, LookTransform, Smoother, the FPS /     *)
(* orbit / unreal controller systems and the per-frame schedule.           *)
(*                                                                         *)
(* Numbers.  Every f32 of the program is a fixed-point integer with three  *)
(* decimal digits: the integer n stands for n / ONE.  Lengths are in       *)
(* thousandths of a world unit, angles in milliradians, weights and        *)
(* sensitivities in thousandths.  Products saturate at Huge the way an f32 *)
(* product saturates at infinity.                                          *)
(***************************************************************************)
EXTENDS Integers, Sequences, FiniteSets, TLC

\* ------------------------------------------------------------------------
\* Fixed-point arithmetic
\* ------------------------------------------------------------------------
ONE == 10 * 10 * 10
Huge == 2 * ONE * ONE * ONE

Abs(a) == IF a < 0 THEN -a ELSE a
Sgn(a) == IF a < 0 THEN -1 ELSE IF a > 0 THEN 1 ELSE 0
Min(a, b) == IF a <= b THEN a ELSE b
first_of(a, b) == a
Max(a, b) == IF a >= b THEN a ELSE b

\* a / b rounded to the nearest integer, b > 0
RDiv(a, b) == IF a >= 0 THEN (a + b \div 2) \div b ELSE -((b \div 2 - a) \div b)

\* integer product, saturating
SatTimes(a, b) ==
    IF a = 0 \/ b = 0 THEN 0
    ELSE IF Abs(a) > Huge \div Abs(b) THEN Sgn(a) * Sgn(b) * Huge
    ELSE a * b

\* f32 a * b
Mul(a, b) ==
    LET hi == Max(Abs(a), Abs(b))
        lo == Min(Abs(a), Abs(b))
        q == hi \div ONE
        r == hi % ONE
        s == Sgn(a) * Sgn(b)
    IN  IF lo = 0 THEN 0
        ELSE IF q > Huge \div lo THEN s * Huge
        ELSE s * Min(Huge, q * lo + (r * lo + ONE \div 2) \div ONE)

\* f32 a / b, b # 0
Div(a, b) ==
    LET A == Abs(a)
        B == Abs(b)
        q == A \div B
        r == A % B
        s == Sgn(a) * Sgn(b)
    IN  IF q > Huge \div ONE THEN s * Huge
        ELSE s * Min(Huge, q * ONE + RDiv(SatTimes(r, ONE), B))

\* f32 a % b (the remainder has the sign of the dividend), b > 0
Rem(a, b) == IF a >= 0 THEN a % b ELSE -((-a) % b)

\* f32 a + b
Add(a, b) ==
    IF a > 0 /\ b > Huge - a THEN Huge
    ELSE IF a < 0 /\ b < (-Huge) - a THEN -Huge
    ELSE a + b

RECURSIVE SqrtSearch(_, _, _)
SqrtSearch(n, lo, hi) ==
    \* the largest r in lo..hi with r * r <= n
    IF lo >= hi THEN lo
    ELSE LET mid == (lo + hi + 1) \div 2
         IN  IF mid * mid <= n THEN SqrtSearch(n, mid, hi)
             ELSE SqrtSearch(n, lo, mid - 1)

\* square root of an integer, rounded to the nearest integer
ISqrt(n) ==
    LET r == SqrtSearch(n, 0, 46340)
    IN  IF n - r * r > r THEN r + 1 ELSE r

\* ------------------------------------------------------------------------
\* Vec2 / Vec3
\* ------------------------------------------------------------------------
VecX == <<ONE, 0, 0>>
VecY == <<0, ONE, 0>>
VecZ == <<0, 0, ONE>>
VecZERO == <<0, 0, 0>>

VAdd(a, b) == <<Add(a[1], b[1]), Add(a[2], b[2]), Add(a[3], b[3])>>
VNeg(a) == <<-a[1], -a[2], -a[3]>>
VSub(a, b) == VAdd(a, VNeg(b))
VScale(s, a) == <<Mul(s, a[1]), Mul(s, a[2]), Mul(s, a[3])>>
MaxAbs(a) == Max(Abs(a[1]), Max(Abs(a[2]), Abs(a[3])))

\* a shrunk by an integer factor so that its squares fit
ShrinkBy(a) == MaxAbs(a) \div 16384 + 1
Shrunk(a) ==
    LET k == ShrinkBy(a)
    IN  <<RDiv(a[1], k), RDiv(a[2], k), RDiv(a[3], k)>>

\* Vec3::length
Length(a) ==
    LET s == Shrunk(a)
    IN  SatTimes(ShrinkBy(a), ISqrt(s[1] * s[1] + s[2] * s[2] + s[3] * s[3]))

\* Vec3::normalize; the zero vector has no direction and the program gets NaN
\* components, which VecZERO stands for (no unit vector is zero)
Normalize(a) ==
    LET s == Shrunk(a)
        len == ISqrt(s[1] * s[1] + s[2] * s[2] + s[3] * s[3])
    IN  IF len = 0 THEN <<0, 0, 0>>
        ELSE <<RDiv(s[1] * ONE, len), RDiv(s[2] * ONE, len), RDiv(s[3] * ONE, len)>>

\* a * wa + b * wb, the two products rounded together
Blend(a, wa, b, wb) ==
    Add(Add(SatTimes(a \div ONE, wa), SatTimes(b \div ONE, wb)),
        RDiv((a % ONE) * wa + (b % ONE) * wb, ONE))
VBlend(a, wa, b, wb) ==
    <<Blend(a[1], wa, b[1], wb), Blend(a[2], wa, b[2], wb), Blend(a[3], wa, b[3], wb)>>

\* Vec3::dot and Vec3::cross of vectors no longer than a few units
Dot(a, b) == RDiv(a[1] * b[1] + a[2] * b[2] + a[3] * b[3], ONE)
Cross(a, b) ==
    <<RDiv(a[2] * b[3] - a[3] * b[2], ONE),
      RDiv(a[3] * b[1] - a[1] * b[3], ONE),
      RDiv(a[1] * b[2] - a[2] * b[1], ONE)>>

\* ------------------------------------------------------------------------
\* Trigonometry on milliradians
\* ------------------------------------------------------------------------
PI == 3142
up_eps == 10

\* sin on [0, PI]
SinPos(x) ==
    LET p == x * (PI - x)
    IN  RDiv(16 * p, RDiv(5 * PI * PI - 4 * p, ONE))

\* x brought into -PI .. PI by whole turns
Wrap(x) ==
    LET m == x % (2 * PI)
    IN  IF m > PI THEN m - 2 * PI ELSE m

\* f32::sin, f32::cos
Sin(x) == LET y == Wrap(x) IN IF y >= 0 THEN SinPos(y) ELSE -SinPos(-y)
Cos(x) == Sin(x + PI \div 2)

\* the element of a one-element set; { e(x) : x \in {v} } names the value v
The(S) == CHOOSE e \in S : TRUE

RECURSIVE AtanSearch(_, _, _, _)
AtanSearch(c, d, lo, hi) ==
    \* the largest t in lo..hi that is not past the direction (d, c)
    IF lo >= hi THEN lo
    ELSE LET mid == (lo + hi + 1) \div 2
         IN  IF c * Cos(mid) - d * Sin(mid) >= 0 THEN AtanSearch(c, d, mid, hi)
             ELSE AtanSearch(c, d, lo, mid - 1)

\* of t and t + 1 the angle closer to the direction (d, c)
AtanClosest(c, d, t) ==
    IF t < PI /\ Abs(c * Cos(t + 1) - d * Sin(t + 1)) < Abs(c * Cos(t) - d * Sin(t))
    THEN t + 1
    ELSE t

\* the angle in 0 .. PI between two unit vectors, from their cross and dot
UnitAngle(ua, ub) ==
    The({The({AtanClosest(c, d, t) : t \in {AtanSearch(c, d, 0, PI)}}) :
         c \in {Length(<<ua[2] * ub[3] - ua[3] * ub[2],
                         ua[3] * ub[1] - ua[1] * ub[3],
                         ua[1] * ub[2] - ua[2] * ub[1]>>) \div 2},
         d \in {(ua[1] * ub[1] + ua[2] * ub[2] + ua[3] * ub[3]) \div 2}})

\* Vec3::angle_between of two non-zero vectors
angle_between(a, b) ==
    The({UnitAngle(ua, ub) : ua \in {Normalize(a)}, ub \in {Normalize(b)}})

\* Quat::from_axis_angle(Vec3::Y, angle) * v, Mat3::from_rotation_y(angle) * v
RotateY(angle, v) ==
    The({<<Add(Mul(v[1], c), Mul(v[3], s)), v[2], Add(Mul(v[3], c), -Mul(v[1], s))>> :
         c \in {Cos(angle)}, s \in {Sin(angle)}})

\* Mat3::from_axis_angle(axis, angle) * v for a unit axis
RotateAxis(axis, angle, v) ==
    The({VAdd(VAdd(VScale(c, v), VScale(s, Cross(axis, v))),
              VScale(Mul(Dot(axis, v), ONE - c), axis)) :
         c \in {Cos(angle)}, s \in {Sin(angle)}})

\* ------------------------------------------------------------------------
\* look_angles.rs
\* ------------------------------------------------------------------------
LookAnglesDefault == [yaw |-> 0, pitch |-> 0]

yaw_and_pitch_unsigned(v) ==
    IF <<v[1], 0, v[3]>> = VecZERO
    THEN IF Dot(v, VecY) > 0 THEN <<0, PI \div 2>> ELSE <<0, -(PI \div 2)>>
    ELSE <<angle_between(<<v[1], 0, v[3]>>, VecZ), angle_between(<<v[1], 0, v[3]>>, v)>>
yaw_and_pitch_from_vector(v) ==
    IF <<v[1], 0, v[3]>> = VecZERO
    THEN IF Dot(v, VecY) > 0 THEN <<0, PI \div 2>> ELSE <<0, -(PI \div 2)>>
    ELSE The({<<IF v[1] < 0 THEN -yaw ELSE yaw, IF v[2] < 0 THEN -pitch ELSE pitch>> :
              yaw \in {angle_between(<<v[1], 0, v[3]>>, VecZ)},
              pitch \in {angle_between(<<v[1], 0, v[3]>>, v)}})

unit_vector_pitched_down(yaw, pitch) ==
    The({RotateAxis(Cross(VecY, ray), pitch, ray) : ray \in {RotateY(yaw, VecZ)}})
unit_vector_from_yaw_and_pitch(yaw, pitch) ==
    The({RotateAxis(Cross(ray, VecY), pitch, ray) : ray \in {RotateY(yaw, VecZ)}})

set_yaw_unwrapped(la, yaw) == [la EXCEPT !.yaw = yaw]
set_yaw(la, yaw) == [la EXCEPT !.yaw = Rem(yaw, 2 * PI)]
add_yaw(la, delta) == set_yaw(la, Add(la.yaw, delta))
set_pitch_unclamped(la, pitch) == [la EXCEPT !.pitch = pitch]
set_pitch(la, pitch) ==
    [la EXCEPT !.pitch = Max(Min(pitch, PI \div 2 - up_eps), up_eps - PI \div 2)]
add_pitch(la, delta) == set_pitch(la, Add(la.pitch, delta))
set_direction(la, v) ==
    The({set_pitch(set_yaw(la, yp[1]), yp[2]) : yp \in {yaw_and_pitch_from_vector(v)}})
from_vector(v) == set_direction(LookAnglesDefault, v)
unit_vector(la) == unit_vector_from_yaw_and_pitch(la.yaw, la.pitch)

\* is_looking_up of assert_not_looking_up: |unit_vector . Y| = 1, which for a
\* unit vector says that its horizontal part vanishes
is_looking_up(la) ==
    LET u == unit_vector(la) IN u[1] = 0 /\ u[3] = 0

\* ------------------------------------------------------------------------
\* State
\* ------------------------------------------------------------------------
VARIABLES
    angles,             \* a LookAngles value driven through its public methods
    sm,                 \* a Smoother driven through its methods
    raw,                \* the LookTransform handed to that Smoother
    out,                \* what its last smooth_transform returned
    calls,              \* smooth_transform calls since construction / enabling
    policy,             \* which controller plugin the app runs
    cams,               \* the camera entities and their components
    events,             \* Events<ControlEvent>: unread events and their age
    applied,            \* the events the last control_system run read
    input,              \* the frame's raw input and frame time
    ran,                \* the systems that already ran in this frame
    frame,              \* number of the running frame
    ops,                \* calls made so far on the value under test
    debug_assertions,   \* whether the build keeps debug_assert!
    panicked,           \* a system or call panicked
    act                 \* the operation that ran last

vars == <<angles, sm, raw, out, calls, policy, cams, events, applied, input, ran,
          frame, ops, debug_assertions, panicked, act>>

\* Option<T>: None is the empty sequence, Some(x) is <<x>>
None == <<>>
Some(x) == <<x>>

\* ------------------------------------------------------------------------
\* LookAngles under arbitrary calls
\* ------------------------------------------------------------------------
MaxOps == 3

AngleVecs ==
    {VecZERO, VecZ, VecY, VNeg(VecY), <<707, ONE, 707>>, <<-2000, -2500, 5000>>,
     <<1, ONE, 0>>, <<-ONE, 0, -1>>}
AngleArgs == {-Huge, -4000, -(PI \div 2), -700, 0, 700, PI \div 2, 2 * PI, 7000, Huge}

frameVarsIdle == <<policy, cams, events, applied, input, ran, frame>>
smootherVarsIdle == <<sm, raw, out, calls>>

InitIdleFrame ==
    /\ policy = "none"
    /\ cams = <<>>
    /\ events = <<>>
    /\ applied = <<>>
    /\ input = <<>>
    /\ ran = {}
    /\ frame = 0

InitIdleSmoother ==
    /\ sm = <<>>
    /\ raw = <<>>
    /\ out = None
    /\ calls = <<>>

InitAngles ==
    /\ angles = LookAnglesDefault
    /\ ops = 0
    /\ debug_assertions \in BOOLEAN
    /\ panicked = FALSE
    /\ act = "init"
    /\ InitIdleFrame
    /\ InitIdleSmoother

AnglesCall(name, la) ==
    /\ ~panicked
    /\ ops < MaxOps
    /\ ops' = ops + 1
    /\ angles' = la
    /\ act' = name
    /\ UNCHANGED <<debug_assertions, panicked>>
    /\ UNCHANGED frameVarsIdle
    /\ UNCHANGED smootherVarsIdle

\* debug_assert_ne!(v, Vec3::ZERO) of yaw_and_pitch_from_vector
AnglesPanic(name, v) ==
    /\ ~panicked
    /\ ops < MaxOps
    /\ debug_assertions
    /\ v = VecZERO
    /\ ops' = ops + 1
    /\ panicked' = TRUE
    /\ act' = name
    /\ UNCHANGED <<angles, debug_assertions>>
    /\ UNCHANGED frameVarsIdle
    /\ UNCHANGED smootherVarsIdle

FromVector ==
    \E v \in AngleVecs :
        \/ (debug_assertions => v # VecZERO) /\ AnglesCall("from_vector", from_vector(v))
        \/ AnglesPanic("from_vector", v)
SetDirection ==
    \E v \in AngleVecs :
        \/ /\ debug_assertions => v # VecZERO
           /\ AnglesCall("set_direction", set_direction(angles, v))
        \/ AnglesPanic("set_direction", v)
SetYaw == \E a \in AngleArgs : AnglesCall("set_yaw", set_yaw(angles, a))
AddYaw == \E a \in AngleArgs : AnglesCall("add_yaw", add_yaw(angles, a))
SetPitch == \E a \in AngleArgs : AnglesCall("set_pitch", set_pitch(angles, a))
AddPitch == \E a \in AngleArgs : AnglesCall("add_pitch", add_pitch(angles, a))

NextAngles == FromVector \/ SetDirection \/ SetYaw \/ AddYaw \/ SetPitch \/ AddPitch
SpecAngles == InitAngles /\ [][NextAngles]_vars

\* C1: after any sequence of LookAngles calls the stored pitch lies in
\* [-PI/2 + up_eps, PI/2 - up_eps] and unit_vector() is neither +up nor -up.
C1_PitchClamped ==
    /\ angles.pitch >= up_eps - PI \div 2
    /\ angles.pitch <= PI \div 2 - up_eps
    /\ unit_vector(angles) \notin {VecY, VNeg(VecY)}
\* a pitch pushed against the upper bound by add_pitch
C1_Witness ==
    /\ act = "add_pitch"
    /\ ops >= 2
    /\ angles.pitch = PI \div 2 - up_eps

\* ------------------------------------------------------------------------
\* look_transform.rs
\* ------------------------------------------------------------------------
LookTransform(eye, target, up) == [eye |-> eye, target |-> target, up |-> up]
LookTransformDefault == LookTransform(VecZERO, VecZERO, VecY)

radius(t) == Length(VSub(t.target, t.eye))

\* Option<Vec3>: try_normalize is None for a vector without length
look_direction(t) ==
    IF Length(VSub(t.target, t.eye)) = 0 THEN None
    ELSE Some(Normalize(VSub(t.target, t.eye)))

\* Transform::from_translation(eye).looking_at(eye + look_vector, up): the
\* translation, and the rotation given by its forward and up directions
eye_look_at_target_transform(eye, target, up) ==
    [translation |-> eye, forward |-> Normalize(VSub(target, eye)), up |-> up]
TransformFrom(t) == eye_look_at_target_transform(t.eye, t.target, t.up)

\* Transform::rotation * v: looking_at builds the basis (right, up, back)
RotationBasis(tf) ==
    The({The({<<right, Cross(back, right), back>> :
              right \in {Normalize(Cross(tf.up, back))}}) :
         back \in {VNeg(tf.forward)}})
Rotate(tf, v) ==
    The({VAdd(VAdd(VScale(v[1], b[1]), VScale(v[2], b[2])), VScale(v[3], b[3])) :
         b \in {RotationBasis(tf)}})

SmootherDefault == [lag_weight |-> 900, lerp_tfm |-> Some(LookTransformDefault), enabled |-> TRUE]
SmootherNew(lag_weight) == [lag_weight |-> lag_weight, lerp_tfm |-> None, enabled |-> TRUE]

reset(s) == [s EXCEPT !.lerp_tfm = None]

set_enabled_keep(s, enabled) == [s EXCEPT !.enabled = enabled]
set_enabled(s, enabled) ==
    IF enabled THEN reset([s EXCEPT !.enabled = enabled])
    ELSE [s EXCEPT !.enabled = enabled]

set_lag_weight(s, lag_weight) == [s EXCEPT !.lag_weight = lag_weight]

\* the debug_assert!s of smooth_transform hold
lag_weight_in_range(s) == 0 <= s.lag_weight /\ s.lag_weight < ONE

\* the LookTransform smooth_transform returns and stores
smoothed_swapped(s, new_tfm) ==
    The({LookTransform(VBlend(old.eye, ONE - s.lag_weight, new_tfm.eye, s.lag_weight),
                       VBlend(old.target, ONE - s.lag_weight, new_tfm.target, s.lag_weight),
                       new_tfm.up) :
         old \in {IF s.lerp_tfm = None THEN new_tfm ELSE s.lerp_tfm[1]}})
smoothed(s, new_tfm) ==
    The({LookTransform(VBlend(old.eye, s.lag_weight, new_tfm.eye, ONE - s.lag_weight),
                       VBlend(old.target, s.lag_weight, new_tfm.target, ONE - s.lag_weight),
                       new_tfm.up) :
         old \in {IF s.lerp_tfm = None THEN new_tfm ELSE s.lerp_tfm[1]}})

smooth_transform(s, new_tfm) == [s EXCEPT !.lerp_tfm = Some(smoothed(s, new_tfm))]

\* ------------------------------------------------------------------------
\* A Smoother under arbitrary calls
\* ------------------------------------------------------------------------
MaxSmootherOps == 5

LagWeights == {0, 900, ONE}
RawTransforms ==
    {LookTransform(<<-2000, 2500, 5000>>, <<0, 500, 0>>, VecY),
     LookTransform(<<3001, 7, -999>>, <<0, 500, 0>>, VecY),
     LookTransform(<<-2000, 2500, 5000>>, <<0, 0, 0>>, VecY)}

NoCalls == [since_new |-> 0, phase |-> "none", since_enable |-> 0, stale |-> None]

InitSmoother ==
    /\ sm \in {SmootherNew(w) : w \in LagWeights} \cup {SmootherDefault}
    /\ raw \in RawTransforms
    /\ out = None
    /\ calls = NoCalls
    /\ angles = LookAnglesDefault
    /\ ops = 0
    /\ debug_assertions \in BOOLEAN
    /\ panicked = FALSE
    /\ act = IF sm.lerp_tfm = None THEN "Smoother::new" ELSE "Smoother::default"
    /\ InitIdleFrame

SmootherCall(name) ==
    /\ ~panicked
    /\ ops < MaxSmootherOps
    /\ ops' = ops + 1
    /\ act' = name
    /\ UNCHANGED <<angles, debug_assertions>>
    /\ UNCHANGED frameVarsIdle

SetEnabled ==
    \E b \in BOOLEAN :
        /\ SmootherCall("set_enabled")
        /\ sm' = set_enabled(sm, b)
        /\ calls' = IF b
                    THEN IF calls.phase = "disabled"
                         THEN [calls EXCEPT !.phase = "reenabled", !.since_enable = 0,
                                            !.stale = sm.lerp_tfm]
                         ELSE calls
                    ELSE [calls EXCEPT !.phase = "disabled"]
        /\ UNCHANGED <<raw, out, panicked>>

SetLagWeight ==
    \E w \in LagWeights :
        /\ SmootherCall("set_lag_weight")
        /\ sm' = set_lag_weight(sm, w)
        /\ UNCHANGED <<raw, out, calls, panicked>>

SmoothTransform ==
    /\ SmootherCall("smooth_transform")
    /\ IF debug_assertions /\ ~lag_weight_in_range(sm)
       THEN /\ panicked' = TRUE
            /\ UNCHANGED <<sm, out, calls>>
       ELSE /\ sm' = smooth_transform(sm, raw)
            /\ out' = Some(smoothed(sm, raw))
            /\ calls' = [calls EXCEPT !.since_new = @ + 1, !.since_enable = @ + 1]
            /\ UNCHANGED panicked
    /\ UNCHANGED raw

Reset ==
    /\ SmootherCall("reset")
    /\ sm' = reset(sm)
    /\ UNCHANGED <<raw, out, calls, panicked>>

\* the owner of the LookTransform writes it
ChangeRaw ==
    \E t \in RawTransforms :
        /\ t # raw
        /\ SmootherCall("write")
        /\ raw' = t
        /\ UNCHANGED <<sm, out, calls, panicked>>

NextSmoother == SetEnabled \/ SetLagWeight \/ SmoothTransform \/ Reset \/ ChangeRaw
SpecSmoother == InitSmoother /\ [][NextSmoother]_vars

SameView(a, b) == a.eye = b.eye /\ a.target = b.target

\* C2: the first smooth_transform(raw) of every newly constructed Smoother
\* (Smoother::new and Smoother::default alike) returns eye and target equal
\* to raw and stores that value as the previous one.
C2_FirstCallReturnsRaw ==
    (act = "smooth_transform" /\ ~panicked /\ calls.since_new = 1) =>
        /\ SameView(out[1], raw)
        /\ sm.lerp_tfm = out

\* C3: with any history, after set_enabled(false), any writes of the raw
\* LookTransform and set_enabled(true), the first smooth_transform returns
\* eye and target equal to the current raw LookTransform.
C3_ReenableReturnsRaw ==
    (act = "smooth_transform" /\ ~panicked /\ calls.phase = "reenabled"
        /\ calls.since_enable = 1) => SameView(out[1], raw)
\* the stale value left from before the disabling differs from raw
C3_Witness ==
    /\ act = "smooth_transform"
    /\ ~panicked
    /\ calls.phase = "reenabled"
    /\ calls.since_enable = 1
    /\ calls.since_new >= 2
    /\ calls.stale # None
    /\ ~SameView(calls.stale[1], raw)
    /\ SameView(out[1], raw)

\* ------------------------------------------------------------------------
\* The app: camera entities, Events<ControlEvent> and the frame's raw input
\* ------------------------------------------------------------------------
MaxFrames == 2

\* Vec2 is a Vec3 whose z is 0; Vec2 * Vec2 is componentwise
Vec2(x, y) == <<x, y, 0>>
V2Mul(a, b) == <<Mul(a[1], b[1]), Mul(a[2], b[2]), 0>>
splat(x) == <<x, x, 0>>

FpsCameraControllerDefault ==
    [enabled |-> TRUE, mouse_rotate_sensitivity |-> splat(2),
     translate_sensitivity |-> 500, smoothing_weight |-> 900]

OrbitCameraControllerDefault ==
    [enabled |-> TRUE, mouse_rotate_sensitivity |-> splat(80),
     mouse_translate_sensitivity |-> splat(100), mouse_wheel_zoom_sensitivity |-> 200,
     smoothing_weight |-> 800, pixels_per_line |-> 53 * ONE, ortho_setup |-> FALSE]

UnrealCameraControllerDefault ==
    [enabled |-> TRUE, rotate_sensitivity |-> splat(2),
     mouse_translate_sensitivity |-> splat(20), wheel_translate_sensitivity |-> ONE,
     keyboard_mvmt_sensitivity |-> 100, keyboard_mvmt_wheel_sensitivity |-> 100,
     smoothing_weight |-> 700]

ControllerDefault(p) ==
    CASE p = "fps" -> FpsCameraControllerDefault
      [] p = "orbit" -> OrbitCameraControllerDefault
      [] p = "unreal" -> UnrealCameraControllerDefault

\* a camera entity: the controller and whether it counts as Changed, the
\* LookTransform with the scale and enabled fields the orbit systems write,
\* Option<Smoother>, the Transform and the kind of Projection
Camera(ctrl, eye, target, up, smoother, proj) ==
    [ctrl |-> ctrl,
     changed |-> TRUE,
     lt |-> [eye |-> eye, target |-> target, up |-> up, scale |-> ONE, enabled |-> TRUE],
     smoother |-> smoother,
     transform |-> eye_look_at_target_transform(eye, target, up),
     proj |-> proj]

\* FpsCameraBundle::new, OrbitCameraBundle::new, UnrealCameraBundle::new
CameraBundle(ctrl, eye, target, proj) ==
    Camera(ctrl, eye, target, VecY, Some(SmootherNew(ctrl.smoothing_weight)), proj)

\* the scenes the app starts with: one camera from the bundle, one spawned
\* without a Smoother, one whose controller starts disabled, a disabled and
\* an enabled camera, and for the orbit controller an orthographic camera
Scenes(p) ==
    LET on == ControllerDefault(p)
        off == [ControllerDefault(p) EXCEPT !.enabled = FALSE]
        eye == <<-2000, 2500, 5000>>
        target == <<0, 500, 0>>
        eye2 == <<3000, 1000, -1000>>
    IN  {<<CameraBundle(on, eye, target, "Perspective")>>,
         <<Camera(on, eye, target, VecY, None, "Perspective")>>,
         <<CameraBundle(off, eye, target, "Perspective")>>,
         <<CameraBundle(off, eye, target, "Perspective"),
           CameraBundle(on, eye2, VecZERO, "Perspective")>>}
        \cup (IF p = "orbit"
              THEN {<<CameraBundle(on, eye, target, "Orthographic")>>}
              ELSE {})

\* a ControlEvent in Events<ControlEvent>: its variant and payload, how many
\* Events::update calls it has seen, and whether it was sent while no
\* controller was there to take it
Event(tag, v) == [tag |-> tag, v |-> v, age |-> 0, off |-> FALSE]

\* the raw input of a frame: Time::delta_seconds, the summed MouseMotion,
\* the pressed keys and mouse buttons, the MouseWheel events
Input(dt, delta, keys, buttons, wheel) ==
    [dt |-> dt, delta |-> delta, keys |-> keys, buttons |-> buttons, wheel |-> wheel]
Wheel(unit, x, y) == [unit |-> unit, x |-> x, y |-> y]
NoInput == Input(16, Vec2(0, 0), {}, {}, <<>>)

Inputs(p) ==
    CASE p = "fps" ->
            {NoInput,
             Input(16, Vec2(100 * ONE, -50 * ONE), {"W"}, {}, <<>>),
             Input(16, Vec2(0, 0), {"A", "Space"}, {}, <<>>)}
      [] p = "orbit" ->
            {NoInput,
             Input(16, Vec2(100 * ONE, -50 * ONE), {"LControl"}, {"Right"}, <<>>),
             Input(16, Vec2(0, 0), {}, {}, <<Wheel("Line", 0, ONE), Wheel("Pixel", 0, 53 * ONE)>>)}
      [] p = "unreal" ->
            {NoInput,
             Input(16, Vec2(100 * ONE, -50 * ONE), {"W", "E"}, {"Left"}, <<Wheel("Line", 0, ONE)>>),
             Input(16, Vec2(100 * ONE, -50 * ONE), {}, {"Right"}, <<>>)}

\* control events application code sends itself (override_input_system)
CustomEvents(p) ==
    CASE p = "fps" -> {Event("TranslateEye", <<0, 0, ONE>>)}
      [] p = "orbit" -> {Event("Zoom", <<1, 0, 0>>), Event("Zoom", <<Huge, 0, 0>>)}
      [] p = "unreal" -> {Event("TranslateEye", Vec2(ONE, 0))}

\* the systems the plugins add to the schedule
Systems(p) ==
    CASE p = "fps" -> {"default_input_map", "control_system", "look_transform_system"}
      [] p = "orbit" -> {"on_controller_enabled_changed", "setup_orthographic_transform",
                         "default_input_map", "control_system", "look_transform_system"}
      [] p = "unreal" -> {"default_input_map", "control_system", "look_transform_system"}
      [] OTHER -> {}

\* cameras.iter().find(|c| c.0.enabled): the index of the camera, 0 for None
FirstAny == IF cams = <<>> THEN 0 ELSE 1
FirstEnabled ==
    IF \E i \in DOMAIN cams : cams[i].ctrl.enabled
    THEN CHOOSE i \in DOMAIN cams :
            cams[i].ctrl.enabled /\ \A j \in 1..(i - 1) : ~cams[j].ctrl.enabled
    ELSE 0

\* the camera the policy's input map and control system pick: the first one
\* for the FPS and unreal controllers, the first enabled one for the orbit
Controlled == IF policy = "orbit" THEN FirstEnabled ELSE 1

InitFrame ==
    /\ policy \in {"fps", "orbit", "unreal"}
    /\ cams \in Scenes(policy)
    /\ events = <<>>
    /\ applied = <<>>
    /\ input = NoInput
    /\ ran = {}
    /\ frame = 0
    /\ angles = LookAnglesDefault
    /\ ops = 0
    /\ debug_assertions = TRUE
    /\ panicked = FALSE
    /\ act = "init"
    /\ InitIdleSmoother

frameVarsFixed == <<angles, sm, raw, out, calls, policy, ops, debug_assertions>>

\* Events::update: the buffer before last is cleared
aged(evs) ==
    LET kept == SelectSeq(evs, LAMBDA e : e.age = 0)
    IN  [i \in 1..Len(kept) |-> [kept[i] EXCEPT !.age = 1]]

\* the runner takes the frame's window events and Time, and the First stage
\* updates the event buffers
BeginFrame ==
    /\ policy # "none"
    /\ ~panicked
    /\ frame < MaxFrames
    /\ frame > 0 => ran = Systems(policy)
    /\ frame' = frame + 1
    /\ ran' = {}
    /\ input' \in Inputs(policy)
    /\ events' = aged(events)
    /\ applied' = <<>>
    /\ act' = "begin_frame"
    /\ UNCHANGED <<cams, panicked>>
    /\ UNCHANGED frameVarsFixed

\* application code, running before PreUpdate, flips a controller's enabled
UserSetEnabled ==
    \E c \in DOMAIN cams :
        /\ act = "begin_frame"
        /\ cams' = [cams EXCEPT ![c].ctrl.enabled = ~cams[c].ctrl.enabled,
                                ![c].changed = TRUE]
        /\ act' = "user_set_enabled"
        /\ UNCHANGED <<events, applied, input, ran, frame, panicked>>
        /\ UNCHANGED frameVarsFixed

\* application code, running before PreUpdate, sends a control event
UserSendEvent ==
    \E e \in CustomEvents(policy) :
        /\ act = "begin_frame"
        /\ events' = Append(events, [e EXCEPT !.off =
                        Controlled = 0 \/ ~cams[Controlled].ctrl.enabled])
        /\ act' = "user_send_event"
        /\ UNCHANGED <<cams, applied, input, ran, frame, panicked>>
        /\ UNCHANGED frameVarsFixed

\* the schedule picks a system that has not run in this frame; PreUpdate
\* comes before Update, and within Update no order is declared
RunSystem(p, name) ==
    /\ policy = p
    /\ ~panicked
    /\ frame > 0
    /\ name \in Systems(p) \ ran
    /\ (p = "orbit" /\ name # "on_controller_enabled_changed")
            => "on_controller_enabled_changed" \in ran
    /\ ran' = ran \cup {name}
    /\ act' = name
    /\ UNCHANGED <<input, frame>>
    /\ UNCHANGED frameVarsFixed

\* ------------------------------------------------------------------------
\* look_transform_system
\* ------------------------------------------------------------------------
look_transform_writeback(cam) ==
    IF cam.smoother # None /\ cam.smoother[1].enabled
    THEN The({[cam EXCEPT !.smoother = Some([cam.smoother[1] EXCEPT !.lerp_tfm = Some(t)]),
                          !.transform = TransformFrom(t),
                          !.lt.eye = t.eye, !.lt.target = t.target] :
              t \in {smoothed(cam.smoother[1], cam.lt)}})
    ELSE cam
look_transform(cam) ==
    IF cam.smoother # None /\ cam.smoother[1].enabled
    THEN The({[cam EXCEPT !.smoother = Some([cam.smoother[1] EXCEPT !.lerp_tfm = Some(t)]),
                          !.transform = TransformFrom(t)] :
              t \in {smoothed(cam.smoother[1], cam.lt)}})
    ELSE cam

\* a Smoother that is enabled and whose lag_weight fails a debug_assert!
smoother_asserts(cam) ==
    /\ debug_assertions
    /\ cam.smoother # None
    /\ cam.smoother[1].enabled
    /\ ~lag_weight_in_range(cam.smoother[1])

LookTransformSystem ==
    \E p \in {"fps", "orbit", "unreal"} :
        /\ RunSystem(p, "look_transform_system")
        /\ IF \E c \in DOMAIN cams : smoother_asserts(cams[c])
           THEN panicked' = TRUE /\ UNCHANGED cams
           ELSE /\ cams' = [c \in DOMAIN cams |-> look_transform(cams[c])]
                /\ UNCHANGED panicked
        /\ UNCHANGED <<events, applied>>

\* ------------------------------------------------------------------------
\* controllers/fps.rs
\* ------------------------------------------------------------------------
FpsKeys ==
    <<<<"W", VecZ>>, <<"A", VecX>>, <<"S", VNeg(VecZ)>>, <<"D", VNeg(VecX)>>,
      <<"LShift", VNeg(VecY)>>, <<"Space", VecY>>>>

\* the events default_input_map sends, in order
fps_default_input_map_keys_first(ctrl, inp) ==
    LET pressed == SelectSeq(FpsKeys, LAMBDA k : k[1] \in inp.keys)
    IN  IF ~ctrl.enabled THEN <<>>
        ELSE [i \in 1..Len(pressed) |->
                     Event("TranslateEye", VScale(ctrl.translate_sensitivity, pressed[i][2]))]
             \o <<Event("Rotate", V2Mul(ctrl.mouse_rotate_sensitivity, inp.delta))>>
fps_default_input_map(ctrl, inp) ==
    LET pressed == SelectSeq(FpsKeys, LAMBDA k : k[1] \in inp.keys)
    IN  IF ~ctrl.enabled THEN <<>>
        ELSE <<Event("Rotate", V2Mul(ctrl.mouse_rotate_sensitivity, inp.delta))>>
             \o [i \in 1..Len(pressed) |->
                     Event("TranslateEye", VScale(ctrl.translate_sensitivity, pressed[i][2]))]

FpsDefaultInputMap ==
    /\ RunSystem("fps", "default_input_map")
    /\ events' = events \o fps_default_input_map(cams[1].ctrl, input)
    /\ UNCHANGED <<cams, applied, panicked>>

\* one round of the loop over events.iter(); rot is <<rot_x, rot_y, rot_z>>
fps_event(e, st, rot) ==
    IF e.tag = "Rotate"
    THEN [st EXCEPT !.la = add_pitch(add_yaw(st.la, -e.v[1]), -e.v[2])]
    ELSE [st EXCEPT !.eye = VAdd(st.eye, VAdd(VAdd(VScale(e.v[1], rot[1]),
                                                   VScale(e.v[2], rot[2])),
                                              VScale(e.v[3], rot[3])))]

RECURSIVE fps_events(_, _, _, _)
fps_events(evs, i, st, rot) ==
    IF i > Len(evs) THEN st
    ELSE The({fps_events(evs, i + 1, next, rot) : next \in {fps_event(evs[i], st, rot)}})

\* assert_not_looking_up, then target = eye + radius() * unit_vector()
target_from_angles_third_person(lt, st) ==
    [lt |-> The({[lt EXCEPT !.eye = VAdd(lt.target, VScale(r, unit_vector(st.la)))] :
                 r \in {Length(VSub(lt.target, st.eye))}}),
     panic |-> FALSE]
target_from_angles(lt, st) ==
    IF is_looking_up(st.la) THEN [lt |-> [lt EXCEPT !.eye = st.eye], panic |-> TRUE]
    ELSE [lt |-> The({[lt EXCEPT !.eye = st.eye,
                                 !.target = VAdd(st.eye, VScale(r, unit_vector(st.la)))] :
                      r \in {Length(VSub(lt.target, st.eye))}}),
          panic |-> FALSE]

\* the enabled branch of control_system: the LookTransform it leaves, and
\* whether look_direction().unwrap() or assert_not_looking_up panicked
fps_control(lt, evs) ==
    IF look_direction(lt) = None THEN [lt |-> lt, panic |-> TRUE]
    ELSE The({The({target_from_angles(lt, st) :
                   st \in {fps_events(evs, 1, [la |-> la, eye |-> lt.eye],
                                      <<RotateY(la.yaw, VecX), RotateY(la.yaw, VecY),
                                        RotateY(la.yaw, VecZ)>>)}}) :
              la \in {from_vector(look_direction(lt)[1])}})

\* events.iter() of the disabled branch builds an iterator and drops it:
\* whether that marks the events as read depends on the bevy release
FpsControlSystem ==
    /\ RunSystem("fps", "control_system")
    /\ IF cams[1].ctrl.enabled
       THEN \E r \in {fps_control(cams[1].lt, events)} :
                /\ cams' = [cams EXCEPT ![1].lt = r.lt]
                /\ panicked' = r.panic
                /\ applied' = events
                /\ events' = <<>>
       ELSE /\ \E read \in BOOLEAN : events' = IF read THEN <<>> ELSE events
            /\ applied' = <<>>
            /\ UNCHANGED <<cams, panicked>>

\* ------------------------------------------------------------------------
\* controllers/orbit.rs
\* ------------------------------------------------------------------------
min_radius == 1
max_radius == ONE * ONE * ONE

\* on_controller_enabled_changed, as the macro defines it: the cameras whose
\* controller counts as Changed get look_tfm.enabled = controller.enabled
OnControllerEnabledChanged ==
    /\ RunSystem("orbit", "on_controller_enabled_changed")
    /\ cams' = [c \in DOMAIN cams |->
                    IF cams[c].changed
                    THEN [cams[c] EXCEPT !.lt.enabled = cams[c].ctrl.enabled,
                                         !.changed = FALSE]
                    ELSE cams[c]]
    /\ UNCHANGED <<events, applied, panicked>>

\* `scale` of setup_orthographic_transform: the scale of an orthographic
\* projection (5.0 in examples/simple_orbit_orthographic.rs), 0.0 for a
\* perspective one
projection_scale(proj) == IF proj = "Orthographic" THEN 5 * ONE ELSE 0

SetupOrthographicTransform ==
    /\ RunSystem("orbit", "setup_orthographic_transform")
    /\ cams' = IF FirstEnabled = 0 \/ cams[FirstEnabled].ctrl.ortho_setup
               THEN cams
               ELSE [cams EXCEPT ![FirstEnabled].ctrl.ortho_setup = TRUE,
                                 ![FirstEnabled].lt.scale = 2 * ONE]
    /\ UNCHANGED <<events, applied, panicked>>

\* the scalar the loop over the MouseWheel events leaves
RECURSIVE zoom_scalar_lines(_, _, _, _)
zoom_scalar_lines(ctrl, wheel, i, scalar) ==
    IF i > Len(wheel) THEN scalar
    ELSE zoom_scalar_lines(ctrl, wheel, i + 1,
            Mul(scalar, ONE - Mul(wheel[i].y, ctrl.mouse_wheel_zoom_sensitivity)))
RECURSIVE zoom_scalar(_, _, _, _)
zoom_scalar(ctrl, wheel, i, scalar) ==
    IF i > Len(wheel) THEN scalar
    ELSE zoom_scalar(ctrl, wheel, i + 1,
            Mul(scalar, ONE - Mul(IF wheel[i].unit = "Line" THEN wheel[i].y
                                  ELSE Div(wheel[i].y, ctrl.pixels_per_line),
                                  ctrl.mouse_wheel_zoom_sensitivity)))

\* the events default_input_map sends for the controller it found
orbit_default_input_map(ctrl, inp) ==
    (IF "LControl" \in inp.keys
     THEN <<Event("Orbit", V2Mul(ctrl.mouse_rotate_sensitivity, inp.delta))>>
     ELSE <<>>)
    \o (IF "Right" \in inp.buttons
        THEN <<Event("TranslateTarget", V2Mul(ctrl.mouse_translate_sensitivity, inp.delta))>>
        ELSE <<>>)
    \o <<Event("Zoom", <<zoom_scalar(ctrl, inp.wheel, 1, ONE), 0, 0>>)>>

OrbitDefaultInputMap ==
    /\ RunSystem("orbit", "default_input_map")
    /\ events' = IF FirstEnabled = 0 THEN events
                 ELSE events \o orbit_default_input_map(cams[FirstEnabled].ctrl, input)
    /\ UNCHANGED <<cams, applied, panicked>>

\* one round of the loop over events.iter(); st holds look_angles, the
\* target and radius_scalar, axes is <<right_dir, up_dir>>
orbit_event(e, st, axes, pan_scale, dt) ==
    CASE e.tag = "Orbit" ->
            [st EXCEPT !.la = add_pitch(add_yaw(st.la, Mul(dt, -e.v[1])), Mul(dt, e.v[2]))]
      [] e.tag = "TranslateTarget" ->
            [st EXCEPT !.target =
                VAdd(st.target,
                     VScale(pan_scale, VAdd(VScale(Mul(dt, e.v[1]), axes[1]),
                                            VScale(Mul(dt, e.v[2]), axes[2]))))]
      [] e.tag = "Zoom" ->
            [st EXCEPT !.radius_scalar = Mul(st.radius_scalar, e.v[1])]

RECURSIVE orbit_events(_, _, _, _, _, _)
orbit_events(evs, i, st, axes, pan_scale, dt) ==
    IF i > Len(evs) THEN st
    ELSE The({orbit_events(evs, i + 1, next, axes, pan_scale, dt) :
              next \in {orbit_event(evs[i], st, axes, pan_scale, dt)}})

\* (radius_scalar * radius()).min(1000000.0).max(0.001)
new_radius_unclamped(radius_scalar, r) == Mul(radius_scalar, r)
new_radius(radius_scalar, r) ==
    Max(Min(Mul(radius_scalar, r), max_radius), min_radius)

\* assert_not_looking_up, then the eye as the projection has it
eye_from_angles(lt, st, orthographic) ==
    IF is_looking_up(st.la) THEN [lt |-> [lt EXCEPT !.target = st.target], panic |-> TRUE]
    ELSE [lt |-> The({[lt EXCEPT
                        !.target = st.target,
                        !.scale = IF orthographic THEN Mul(lt.scale, st.radius_scalar)
                                  ELSE lt.scale,
                        !.eye = VAdd(st.target,
                                     VScale(IF orthographic THEN r
                                            ELSE new_radius(st.radius_scalar, r),
                                            unit_vector(st.la)))] :
                      r \in {Length(VSub(st.target, lt.eye))}}),
          panic |-> FALSE]

\* control_system for the camera it found: the LookTransform it leaves, and
\* whether look_direction().unwrap() or assert_not_looking_up panicked
orbit_control(cam, evs, dt) ==
    IF look_direction(cam.lt) = None THEN [lt |-> cam.lt, panic |-> TRUE]
    ELSE The({eye_from_angles(cam.lt, st, cam.proj = "Orthographic") :
              st \in {orbit_events(evs, 1,
                        [la |-> from_vector(VNeg(look_direction(cam.lt)[1])),
                         target |-> cam.lt.target, radius_scalar |-> ONE],
                        <<Rotate(cam.transform, VNeg(VecX)), Rotate(cam.transform, VecY)>>,
                        IF cam.proj = "Orthographic" THEN Mul(cam.lt.scale, 500) ELSE ONE,
                        dt)}})

\* without an enabled camera the system returns before it reads the events
OrbitControlSystem ==
    /\ RunSystem("orbit", "control_system")
    /\ IF FirstEnabled # 0
       THEN \E r \in {orbit_control(cams[FirstEnabled], events, input.dt)} :
                /\ cams' = [cams EXCEPT ![FirstEnabled].lt = r.lt]
                /\ panicked' = r.panic
                /\ applied' = events
                /\ events' = <<>>
       ELSE /\ applied' = <<>>
            /\ UNCHANGED <<cams, events, panicked>>

\* ------------------------------------------------------------------------
\* controllers/unreal.rs
\* ------------------------------------------------------------------------
wheel_ignored(wheel, i) == 0
RECURSIVE wheel_sum(_, _)
wheel_sum(wheel, i) ==
    IF i > Len(wheel) THEN 0
    ELSE Add(Add(wheel[i].x, wheel[i].y), wheel_sum(wheel, i + 1))

key_axis(keys, plus, minus) ==
    (IF plus \in keys THEN ONE ELSE 0) - (IF minus \in keys THEN ONE ELSE 0)

\* default_input_map of an enabled controller: the events it sends, in
\* order, and the keyboard_mvmt_sensitivity it leaves in the controller
unreal_default_input_map(ctrl, inp) ==
    LET left == "Left" \in inp.buttons
        right == "Right" \in inp.buttons
        middle == "Middle" \in inp.buttons
        wheel_delta == wheel_sum(inp.wheel, 1)
        panning_dir == Vec2(key_axis(inp.keys, "D", "A"), key_axis(inp.keys, "E", "Q"))
        translation_dir_y == key_axis(inp.keys, "W", "S")
        kms == ctrl.keyboard_mvmt_sensitivity
        key_panning == IF left \/ middle \/ right THEN VScale(kms, panning_dir)
                       ELSE Vec2(0, 0)
        key_locomotion_y ==
            IF left \/ middle \/ right
            THEN IF translation_dir_y # 0 THEN Mul(kms, translation_dir_y) ELSE 0
            ELSE IF wheel_delta # 0 THEN Mul(ctrl.wheel_translate_sensitivity, wheel_delta)
                 ELSE 0
        panning == IF middle \/ (left /\ right)
                   THEN VAdd(key_panning, V2Mul(ctrl.mouse_translate_sensitivity, inp.delta))
                   ELSE key_panning
        locomotion ==
            IF left /\ ~middle /\ ~right
            THEN Vec2(Mul(ctrl.rotate_sensitivity[1], inp.delta[1]),
                      Add(key_locomotion_y,
                          -Mul(ctrl.mouse_translate_sensitivity[2], inp.delta[2])))
            ELSE Vec2(0, key_locomotion_y)
    IN  [events |->
            (IF ~left /\ ~middle /\ right
             THEN <<Event("Rotate", V2Mul(ctrl.rotate_sensitivity, inp.delta))>>
             ELSE <<>>)
            \o (IF panning # Vec2(0, 0) THEN <<Event("TranslateEye", panning)>> ELSE <<>>)
            \o (IF locomotion # Vec2(0, 0) THEN <<Event("Locomotion", locomotion)>>
                ELSE <<>>),
         keyboard_mvmt_sensitivity |->
            IF left \/ middle \/ right
            THEN Max(Add(kms, Mul(ctrl.keyboard_mvmt_wheel_sensitivity, wheel_delta)), 10)
            ELSE kms]

UnrealDefaultInputMap ==
    /\ RunSystem("unreal", "default_input_map")
    /\ IF cams[1].ctrl.enabled
       THEN \E r \in {unreal_default_input_map(cams[1].ctrl, input)} :
                /\ events' = events \o r.events
                /\ cams' = [cams EXCEPT ![1].ctrl.keyboard_mvmt_sensitivity =
                                            r.keyboard_mvmt_sensitivity]
       ELSE UNCHANGED <<events, cams>>
    /\ UNCHANGED <<applied, panicked>>

\* one round of the loop over events.iter()
unreal_event(e, st, look_vector) ==
    CASE e.tag = "Locomotion" ->
            [st EXCEPT !.la = add_yaw(st.la, -e.v[1]),
                       !.eye = VAdd(st.eye, VScale(e.v[2], look_vector))]
      [] e.tag = "Rotate" ->
            [st EXCEPT !.la = add_pitch(add_yaw(st.la, -e.v[1]), -e.v[2])]
      [] e.tag = "TranslateEye" ->
            [st EXCEPT !.eye = VSub(st.eye, VSub(VScale(e.v[1], RotateY(st.la.yaw, VecX)),
                                                 <<0, e.v[2], 0>>))]

RECURSIVE unreal_events(_, _, _, _)
unreal_events(evs, i, st, look_vector) ==
    IF i > Len(evs) THEN st
    ELSE The({unreal_events(evs, i + 1, next, look_vector) :
              next \in {unreal_event(evs[i], st, look_vector)}})

\* the enabled branch of control_system: the LookTransform it leaves,
\* whether it got to read the events, whether assert_not_looking_up panicked
unreal_control(lt, evs) ==
    IF look_direction(lt) = None THEN [lt |-> lt, panic |-> FALSE, read |-> FALSE]
    ELSE The({The({[lt |-> r.lt, panic |-> r.panic, read |-> TRUE] :
                   r \in {target_from_angles(lt,
                            unreal_events(evs, 1,
                                [la |-> from_vector(look_vector), eye |-> lt.eye],
                                look_vector))}}) :
              look_vector \in {look_direction(lt)[1]}})

UnrealControlSystem ==
    /\ RunSystem("unreal", "control_system")
    /\ IF cams[1].ctrl.enabled
       THEN \E r \in {unreal_control(cams[1].lt, events)} :
                /\ cams' = [cams EXCEPT ![1].lt = r.lt]
                /\ panicked' = r.panic
                /\ applied' = IF r.read THEN events ELSE <<>>
                /\ events' = IF r.read THEN <<>> ELSE events
       ELSE /\ \E read \in BOOLEAN : events' = IF read THEN <<>> ELSE events
            /\ applied' = <<>>
            /\ UNCHANGED <<cams, panicked>>

NextFrame ==
    \/ BeginFrame
    \/ UserSetEnabled
    \/ UserSendEvent
    \/ LookTransformSystem
    \/ FpsDefaultInputMap
    \/ FpsControlSystem
    \/ OnControllerEnabledChanged
    \/ SetupOrthographicTransform
    \/ OrbitDefaultInputMap
    \/ OrbitControlSystem
    \/ UnrealDefaultInputMap
    \/ UnrealControlSystem
SpecFrame == InitFrame /\ [][NextFrame]_vars

\* ------------------------------------------------------------------------
\* Properties of the frame
\* ------------------------------------------------------------------------

\* C4: for each controller policy a change of the controller's enabled flag
\* reaches the paired Smoother before the frame's smoothing step, so at every
\* smoothing step the controller's and its Smoother's enabled flags are equal.
C4_SmootherFollowsController ==
    act = "look_transform_system" =>
        \A c \in DOMAIN cams :
            cams[c].smoother # None =>
                cams[c].smoother[1].enabled = cams[c].ctrl.enabled

\* C5: while a controller's enabled flag is false, a frame with any input
\* emits no control events for it and leaves its LookTransform's eye, target
\* and up as they were.
C5_DisabledControllerInert ==
    [][/\ (act' = "default_input_map"
             /\ (Controlled = 0 \/ ~cams[Controlled].ctrl.enabled)) => events' = events
       /\ \A c \in DOMAIN cams :
            ~cams[c].ctrl.enabled =>
                /\ cams'[c].lt.eye = cams[c].lt.eye
                /\ cams'[c].lt.target = cams[c].lt.target
                /\ cams'[c].lt.up = cams[c].lt.up]_vars
\* a disabled controller went through its input map and its control system
\* in a frame with pointer motion and pressed keys or buttons
C5_Witness ==
    /\ act = "control_system"
    /\ "default_input_map" \in ran
    /\ Len(cams) = 1
    /\ ~cams[1].ctrl.enabled
    /\ input.delta # Vec2(0, 0)
    /\ input.keys \cup input.buttons # {}
    /\ events = <<>>

\* C6: control events that arrive while a controller is disabled are
\* discarded in that frame: none of them is applied after re-enabling.
C6_NothingLeaksFromDisabledFrames ==
    \A i \in DOMAIN applied : ~applied[i].off

\* C7: look_transform_system writes every camera's Transform in every frame:
\* from the smoothed LookTransform when an enabled Smoother is present, from
\* the raw LookTransform otherwise.
C7_TransformWrittenEveryFrame ==
    (act = "look_transform_system" /\ ~panicked) =>
        \A c \in DOMAIN cams :
            cams[c].transform =
                TransformFrom(IF cams[c].smoother # None /\ cams[c].smoother[1].enabled
                              THEN cams[c].smoother[1].lerp_tfm[1]
                              ELSE cams[c].lt)

\* C8: smoothing never modifies the LookTransform: a look_transform_system
\* step changes only the Smoother's stored value and the Transform.
C8_SmoothingKeepsLookTransform ==
    [][act' = "look_transform_system" =>
            \A c \in DOMAIN cams :
                /\ cams'[c].lt = cams[c].lt
                /\ cams'[c].ctrl = cams[c].ctrl
                /\ cams'[c].proj = cams[c].proj]_vars
\* a smoothing step whose smoothed eye lags behind the LookTransform's eye
C8_Witness ==
    /\ act = "look_transform_system"
    /\ ~panicked
    /\ \E c \in DOMAIN cams :
        /\ cams[c].smoother # None
        /\ cams[c].smoother[1].lerp_tfm # None
        /\ cams[c].smoother[1].lerp_tfm[1].eye # cams[c].lt.eye
        /\ cams[c].transform.translation = cams[c].smoother[1].lerp_tfm[1].eye

\* C9: within every frame the input map runs before the control system and
\* the control system before smoothing and the Transform write.
C9_StrictOrder ==
    /\ act = "control_system" => "default_input_map" \in ran
    /\ act = "look_transform_system" => "control_system" \in ran

\* the product of the Zoom scalars among the events, in order
RECURSIVE radius_scalar_of(_, _, _)
radius_scalar_of(evs, i, scalar) ==
    IF i > Len(evs) THEN scalar
    ELSE radius_scalar_of(evs, i + 1,
            IF evs[i].tag = "Zoom" THEN Mul(scalar, evs[i].v[1]) ELSE scalar)

\* a and b agree up to the rounding of a unit vector's components
Near(a, b) == Abs(a - b) <= 2 + b \div 200

\* the step left camera c with the radius clamp(radius_scalar * radius),
\* radius being the distance of the old eye from the panned target
RadiusClamped(c) ==
    The({/\ Near(r, Max(min_radius, Min(max_radius, Mul(scalar, old))))
         /\ r >= min_radius
         /\ r <= max_radius + max_radius \div 200 :
         r \in {radius(cams'[c].lt)},
         scalar \in {radius_scalar_of(events, 1, ONE)},
         old \in {Length(VSub(cams'[c].lt.target, cams[c].lt.eye))}})

OrbitControlStep ==
    /\ policy = "orbit"
    /\ act' = "control_system"
    /\ ~panicked'
    /\ FirstEnabled # 0

\* C10 as stated: after every orbit control update the eye-target radius is
\* clamp(radius_scalar * radius, 0.001, 1000000).
C10_RadiusClampedEveryUpdate ==
    [][OrbitControlStep => RadiusClamped(FirstEnabled)]_vars

\* C10: after every orbit control update of a camera with a perspective
\* projection the eye-target radius is clamp(radius_scalar * radius, 0.001,
\* 1000000), radius_scalar being the product of the frame's Zoom scalars.
C10_PerspectiveRadiusClamped ==
    [][(OrbitControlStep /\ cams[FirstEnabled].proj = "Perspective")
            => RadiusClamped(FirstEnabled)]_vars
\* a Zoom beyond the cap was applied and left the radius at the cap
C10_Witness ==
    /\ policy = "orbit"
    /\ act = "control_system"
    /\ ~panicked
    /\ FirstEnabled # 0
    /\ cams[FirstEnabled].proj = "Perspective"
    /\ \E i \in DOMAIN applied : applied[i].tag = "Zoom" /\ applied[i].v[1] = Huge
    /\ Near(radius(cams[FirstEnabled].lt), max_radius)

\* ------------------------------------------------------------------------
\* one frame of one controller from a chosen view and a chosen raw input:
\* the input map and the control system of the plugin, in either order
\* ------------------------------------------------------------------------
\* a camera whose eye sits on its target, a camera on the origin that looks
\* along +Z at a target one step of the default input away, and the view of
\* the examples with a translate_sensitivity of 2.0
AxisDistance(p) == IF p = "fps" THEN ONE \div 2 ELSE ONE

ScenarioCams(p) ==
    LET on == ControllerDefault(p)
        eye == <<-2000, 2500, 5000>>
        target == <<0, 500, 0>>
        point == <<ONE, ONE, ONE>>
    IN  {<<CameraBundle(on, eye, target, "Perspective")>>,
         <<CameraBundle(on, point, point, "Perspective")>>,
         <<CameraBundle(on, VecZERO, VScale(AxisDistance(p), VecZ), "Perspective")>>}
        \cup (IF p = "fps"
              THEN {<<CameraBundle([on EXCEPT !.translate_sensitivity = 2 * ONE],
                                   eye, target, "Perspective")>>}
              ELSE {})
        \cup (IF p = "orbit"
              THEN {<<CameraBundle(on, eye, target, "Orthographic")>>}
              ELSE {})

\* one key or one button held for one frame, a frame of no length, a frame
\* of one second
ScenarioInputs(p) ==
    CASE p = "fps" ->
            {NoInput,
             Input(16, Vec2(0, 0), {"W"}, {}, <<>>),
             Input(0, Vec2(0, 0), {"W"}, {}, <<>>),
             Input(16, Vec2(0, 0), {"D"}, {}, <<>>),
             Input(16, Vec2(100 * ONE, -50 * ONE), {}, {}, <<>>)}
      [] p = "orbit" ->
            {NoInput,
             Input(ONE, Vec2(ONE, 0), {}, {"Right"}, <<>>),
             Input(ONE, Vec2(10 * ONE, 0), {}, {"Right"}, <<>>),
             Input(16, Vec2(0, 20 * ONE), {}, {"Right"}, <<>>),
             Input(16, Vec2(100 * ONE, -50 * ONE), {"LControl"}, {}, <<>>),
             Input(16, Vec2(0, 0), {}, {}, <<Wheel("Line", 0, ONE)>>)}
      [] p = "unreal" ->
            {NoInput,
             Input(16, Vec2(0, 0), {}, {}, <<Wheel("Line", 0, ONE)>>),
             Input(16, Vec2(0, 0), {"W"}, {"Right"}, <<>>),
             Input(16, Vec2(100 * ONE, -50 * ONE), {}, {"Right"}, <<>>),
             Input(16, Vec2(100 * ONE, -50 * ONE), {}, {"Middle"}, <<>>)}

InitScenario ==
    /\ policy \in {"fps", "orbit", "unreal"}
    /\ cams \in ScenarioCams(policy)
    /\ events = <<>>
    /\ applied = <<>>
    /\ input \in ScenarioInputs(policy)
    /\ ran = Systems(policy) \ {"default_input_map", "control_system"}
    /\ frame = 1
    /\ angles = LookAnglesDefault
    /\ ops = 0
    /\ debug_assertions \in BOOLEAN
    /\ panicked = FALSE
    /\ act = "init"
    /\ InitIdleSmoother

NextScenario ==
    \/ FpsDefaultInputMap
    \/ FpsControlSystem
    \/ OrbitDefaultInputMap
    \/ OrbitControlSystem
    \/ UnrealDefaultInputMap
    \/ UnrealControlSystem

SpecScenario == InitScenario /\ [][NextScenario]_vars

\* C11: when the eye of the controlled camera coincides with its target,
\* look_direction() is None and the control update of every policy skips
\* the frame: it does not panic and it leaves the LookTransform as it was
C11_DegenerateViewSkipsFrame ==
    [][(/\ act' = "control_system"
        /\ Controlled # 0
        /\ cams[Controlled].ctrl.enabled
        /\ cams[Controlled].lt.eye = cams[Controlled].lt.target)
       => (/\ look_direction(cams[Controlled].lt) = None
           /\ ~panicked'
           /\ cams'[Controlled].lt = cams[Controlled].lt)]_vars

\* C12: a frame of a policy that starts with the eye off the target ends
\* with the eye off the target
C12_EyeNeverReachesTarget ==
    [][\A c \in DOMAIN cams :
          cams[c].lt.eye # cams[c].lt.target
              => cams'[c].lt.eye # cams'[c].lt.target]_vars

\* two vectors, two pairs of look angles, that differ by rounding only
NearVec(a, b, tol) == \A i \in 1..3 : Abs(a[i] - b[i]) <= tol
NearAngles(a, b, tol) == Abs(a.yaw - b.yaw) <= tol /\ Abs(a.pitch - b.pitch) <= tol

\* C13: with the FPS controller, one movement key held for one frame moves
\* the eye by dt x translate_sensitivity along the axis of that key turned
\* by the yaw of the view (nothing for dt = 0), and the target is set again
\* so that the look angles are what they were
C13_KeyMovesEyeByDtTimesSensitivity ==
    [][(/\ policy = "fps"
        /\ act' = "control_system"
        /\ cams[1].ctrl.enabled
        /\ look_direction(cams[1].lt) # None
        /\ events # <<>>
        /\ input.delta = Vec2(0, 0)
        /\ Cardinality(input.keys) = 1)
       => \E k \in DOMAIN FpsKeys :
            /\ FpsKeys[k][1] \in input.keys
            /\ NearVec(cams'[1].lt.eye,
                       VAdd(cams[1].lt.eye,
                            VScale(Mul(input.dt, cams[1].ctrl.translate_sensitivity),
                                   RotateY(from_vector(look_direction(cams[1].lt)[1]).yaw,
                                           FpsKeys[k][2]))),
                       2)
            /\ look_direction(cams'[1].lt) # None
            /\ NearAngles(from_vector(look_direction(cams'[1].lt)[1]),
                          from_vector(look_direction(cams[1].lt)[1]), 3)]_vars

\* the events of a frame are one TranslateTarget and Zoom events of scalar 1
OnlyTranslateTarget(evs) ==
    /\ Len(SelectSeq(evs, LAMBDA e : e.tag = "TranslateTarget")) = 1
    /\ \A i \in DOMAIN evs :
          \/ evs[i].tag = "TranslateTarget"
          \/ evs[i].tag = "Zoom" /\ evs[i].v[1] = ONE

\* the target moved by dt x delta along the right_dir and up_dir of the
\* camera's Transform
TargetShifted(cam, lt, delta, dt) ==
    NearVec(lt.target,
            VAdd(cam.lt.target,
                 VAdd(VScale(Mul(dt, delta[1]), Rotate(cam.transform, VNeg(VecX))),
                      VScale(Mul(dt, delta[2]), Rotate(cam.transform, VecY)))),
            2)

\* C14: an orbit control update of a perspective camera whose only effective
\* event is a TranslateTarget shifts the target by dt x delta along the
\* scene's right and up axes, and sets the eye so that the radius and the
\* look direction are what they were before the frame
C14_PanKeepsRadiusAndDirection ==
    [][(/\ policy = "orbit"
        /\ act' = "control_system"
        /\ FirstEnabled # 0
        /\ cams[FirstEnabled].proj = "Perspective"
        /\ look_direction(cams[FirstEnabled].lt) # None
        /\ OnlyTranslateTarget(events))
       => \E i \in DOMAIN events :
            /\ events[i].tag = "TranslateTarget"
            /\ TargetShifted(cams[FirstEnabled], cams'[FirstEnabled].lt,
                             events[i].v, input.dt)
            /\ Near(radius(cams'[FirstEnabled].lt), radius(cams[FirstEnabled].lt))
            /\ look_direction(cams'[FirstEnabled].lt) # None
            /\ NearVec(look_direction(cams'[FirstEnabled].lt)[1],
                       look_direction(cams[FirstEnabled].lt)[1], 3)]_vars

\* ------------------------------------------------------------------------
\* A Smoother that is called again and again with one raw LookTransform
\* ------------------------------------------------------------------------
ConstantLagWeights == {0, 500, 900}

InitConstantRaw ==
    /\ sm \in {SmootherNew(w) : w \in ConstantLagWeights}
              \cup {set_lag_weight(SmootherDefault, w) : w \in ConstantLagWeights}
    /\ raw \in RawTransforms
    /\ out = None
    /\ calls = NoCalls
    /\ angles = LookAnglesDefault
    /\ ops = 0
    /\ debug_assertions \in BOOLEAN
    /\ panicked = FALSE
    /\ act = IF sm.lerp_tfm = None THEN "Smoother::new" ELSE "Smoother::default"
    /\ InitIdleFrame

\* smooth_transform(&raw); the calls are not counted, the values settle
SmoothConstantRaw ==
    /\ ~panicked
    /\ IF debug_assertions /\ ~lag_weight_in_range(sm)
       THEN /\ panicked' = TRUE
            /\ UNCHANGED <<sm, out>>
       ELSE /\ sm' = smooth_transform(sm, raw)
            /\ out' = Some(smoothed(sm, raw))
            /\ UNCHANGED panicked
    /\ act' = "smooth_transform"
    /\ UNCHANGED <<raw, calls, angles, ops, debug_assertions>>
    /\ UNCHANGED frameVarsIdle

NextConstantRaw == SmoothConstantRaw
SpecConstantRaw == InitConstantRaw /\ [][NextConstantRaw]_vars /\ WF_vars(SmoothConstantRaw)

\* new is old x w + v x (1 - w) rounded to the nearest step, which is no
\* farther from v than old and on the same side of v
BlendLaw(old, v, new, w) ==
    /\ 2 * Abs(new * ONE - (old * w + v * (ONE - w))) <= ONE
    /\ Abs(new - v) <= Abs(old - v)
    /\ (old - v) * (new - v) >= 0
VBlendLaw(old, v, new, w) == \A i \in 1..3 : BlendLaw(old[i], v[i], new[i], w)

\* the smoothed value is within the rounding of the arithmetic of raw: a
\* distance d with d x 0.9 rounding to d again
Settled ==
    /\ out # None
    /\ NearVec(out[1].eye, raw.eye, 5)
    /\ NearVec(out[1].target, raw.target, 5)

\* C15: with a constant raw LookTransform V and a lag weight w in [0, 1),
\* every smooth_transform after the seeding one returns and stores
\* smoothed x w + V x (1 - w) for eye and target, so that the distance of
\* each component to V is multiplied by w (it does not grow and does not
\* pass V), and the output converges to V
C15_ConvergesToConstantRaw ==
    /\ [][(sm.lerp_tfm # None /\ lag_weight_in_range(sm) /\ act' = "smooth_transform")
          => /\ out' # None
             /\ sm'.lerp_tfm = out'
             /\ VBlendLaw(sm.lerp_tfm[1].eye, raw.eye, out'[1].eye, sm.lag_weight)
             /\ VBlendLaw(sm.lerp_tfm[1].target, raw.target, out'[1].target,
                          sm.lag_weight)]_vars
    /\ <>[]Settled
\* a Smoother seeded far from V whose output has come to V
C15_Witness ==
    /\ act = "smooth_transform"
    /\ sm.lag_weight = 900
    /\ ~NearVec(LookTransformDefault.eye, raw.eye, ONE)
    /\ sm.lerp_tfm = out
    /\ Settled
    /\ ~SameView(out[1], raw)

\* ------------------------------------------------------------------------
\* LookAngles under set_yaw and add_yaw, the argument of the last call kept
\* ------------------------------------------------------------------------
MaxYawOps == 3

\* finite angles, of less and of more than one turn
YawArgs == {-20000, -7000, -(2 * PI), -4000, -700, -1, 0, 1, 700, PI, 2 * PI, 7000}

InitYaw ==
    /\ angles = LookAnglesDefault
    /\ input = 0
    /\ ops = 0
    /\ debug_assertions \in BOOLEAN
    /\ panicked = FALSE
    /\ act = "init"
    /\ policy = "none"
    /\ cams = <<>>
    /\ events = <<>>
    /\ applied = <<>>
    /\ ran = {}
    /\ frame = 0
    /\ InitIdleSmoother

YawCall(name, a) ==
    /\ ops < MaxYawOps
    /\ ops' = ops + 1
    /\ act' = name
    /\ input' = a
    /\ UNCHANGED <<debug_assertions, panicked, policy, cams, events, applied, ran, frame>>
    /\ UNCHANGED smootherVarsIdle

YawSet == \E a \in YawArgs : YawCall("set_yaw", a) /\ angles' = set_yaw(angles, a)
YawAdd == \E a \in YawArgs : YawCall("add_yaw", a) /\ angles' = add_yaw(angles, a)

NextYaw == YawSet \/ YawAdd
SpecYaw == InitYaw /\ [][NextYaw]_vars

\* two angles that differ by whole turns
Congruent(a, b) == (a - b) % (2 * PI) = 0

\* C16: add_yaw(delta) stores a yaw congruent to the stored yaw plus delta
\* modulo 2 pi and of magnitude below 2 pi; add_yaw(2 pi) leaves the yaw
\* equivalent; the yaw stays bounded however many deltas are added
C16_YawWrapped ==
    [][act' = "add_yaw"
       => /\ Congruent(angles'.yaw, angles.yaw + input')
          /\ Abs(angles'.yaw) < 2 * PI
          /\ input' = 2 * PI => Congruent(angles'.yaw, angles.yaw)
          /\ angles'.pitch = angles.pitch]_vars
\* a sum of more than one turn was wrapped, then a whole turn was added
C16_Witness ==
    /\ act = "add_yaw"
    /\ ops = 3
    /\ input = 2 * PI
    /\ angles.yaw = 2 * 7000 - 2 * (2 * PI)

\* ------------------------------------------------------------------------
\* A vector turned into LookAngles and the LookAngles into a unit vector
\* ------------------------------------------------------------------------
GridCoords == {-2, -1, 0, 1, 2}
GridVecs == {<<x * ONE, y * ONE, z * ONE>> : x \in GridCoords, y \in GridCoords, z \in GridCoords}

\* the vectors of the grid, their unit vectors, the vector of
\* test_yaw_and_pitch, and unit vectors next to the up axis
VectorInputs ==
    GridVecs
    \cup {Normalize(g) : g \in GridVecs \ {VecZERO}}
    \cup {<<707, ONE, 707>>, <<5, ONE, 0>>, <<0, -ONE, 5>>, <<20, ONE, 0>>, <<-12, -ONE, 16>>}

InitVector ==
    /\ input \in VectorInputs
    /\ angles = LookAnglesDefault
    /\ out = None
    /\ ops = 0
    /\ debug_assertions \in BOOLEAN
    /\ panicked = FALSE
    /\ act = "init"
    /\ policy = "none"
    /\ cams = <<>>
    /\ events = <<>>
    /\ applied = <<>>
    /\ ran = {}
    /\ frame = 0
    /\ sm = <<>>
    /\ raw = <<>>
    /\ calls = <<>>

vectorVarsFixed == <<input, ops, debug_assertions, policy, cams, events, applied, ran, frame,
                     sm, raw, calls>>

\* LookAngles::from_vector(input); out keeps what yaw_and_pitch_from_vector
\* returned to set_direction
VectorToAngles ==
    /\ act = "init"
    /\ act' = "from_vector"
    /\ IF debug_assertions /\ input = VecZERO
       THEN /\ panicked' = TRUE
            /\ UNCHANGED <<angles, out>>
       ELSE /\ angles' = from_vector(input)
            /\ out' = Some(yaw_and_pitch_from_vector(input))
            /\ UNCHANGED panicked
    /\ UNCHANGED vectorVarsFixed

\* look_angles.unit_vector()
AnglesToVector ==
    /\ act = "from_vector"
    /\ ~panicked
    /\ act' = "unit_vector"
    /\ out' = Some(unit_vector(angles))
    /\ UNCHANGED <<angles, panicked>>
    /\ UNCHANGED vectorVarsFixed

NextVector == VectorToAngles \/ AnglesToVector
SpecVector == InitVector /\ [][NextVector]_vars

\* a vector of length one, and one whose angle to +up and to -up is more
\* than the margin of set_pitch (its horizontal part is longer than sin eps)
IsUnit(v) == Abs(Length(v) - ONE) <= 1
AwayFromUp(v) == Length(<<v[1], 0, v[3]>>) > up_eps

\* C17: for a unit vector v more than eps = 0.01 rad away from +up and from
\* -up, from_vector(v).unit_vector() is v again, up to rounding
C17_RoundTrip ==
    (act = "unit_vector" /\ IsUnit(input) /\ AwayFromUp(input))
        => NearVec(out[1], input, 3)
\* a vector with negative yaw and negative pitch came back
C17_Witness ==
    /\ act = "unit_vector"
    /\ IsUnit(input)
    /\ AwayFromUp(input)
    /\ input[1] < 0
    /\ input[2] < 0
    /\ angles.yaw < 0
    /\ angles.pitch < 0
    /\ NearVec(out[1], input, 3)

\* yaw turns +Z about the up axis onto the horizontal part of v and is
\* negative exactly when v.x < 0; pitch is the angle of v over its horizontal
\* part and is negative exactly when v.y < 0; a vertical v has yaw 0 and
\* pitch +pi/2 or -pi/2 by the sign of v . up
IsYawAndPitchOf(v, yaw, pitch) ==
    LET h == Length(<<v[1], 0, v[3]>>)
        len == Length(v)
    IN  IF <<v[1], 0, v[3]>> = VecZERO
        THEN yaw = 0 /\ pitch = (IF v[2] > 0 THEN PI \div 2 ELSE -(PI \div 2))
        ELSE /\ (v[1] < 0) <=> (yaw < 0)
             /\ (v[2] < 0) <=> (pitch < 0)
             /\ Abs(yaw) <= PI
             /\ Abs(pitch) <= PI \div 2
             /\ Abs(Sin(yaw) * h - v[1] * ONE) <= 4 * h
             /\ Abs(Cos(yaw) * h - v[3] * ONE) <= 4 * h
             /\ Abs(Sin(pitch) * len - v[2] * ONE) <= 4 * len
             /\ Abs(Cos(pitch) * len - h * ONE) <= 4 * len

\* C18: for a non-zero v, yaw_and_pitch_from_vector(v) is the yaw and pitch
\* described above: +Z gives (0, 0), +X and -X give (+pi/2, 0) and
\* (-pi/2, 0), (sqrt 1/2, 1, sqrt 1/2) gives (pi/4, pi/4)
C18_YawAndPitchOfVector ==
    (act = "from_vector" /\ ~panicked /\ input # VecZERO)
        => /\ IsYawAndPitchOf(input, out[1][1], out[1][2])
           /\ input = VecZ => out[1] = <<0, 0>>
           /\ input = VecX => Abs(out[1][1] - PI \div 2) <= 1 /\ out[1][2] = 0
           /\ input = VNeg(VecX) => Abs(out[1][1] + PI \div 2) <= 1 /\ out[1][2] = 0
           /\ input = <<707, ONE, 707>>
                => Abs(out[1][1] - PI \div 4) <= 2 /\ Abs(out[1][2] - PI \div 4) <= 2
\* the yaw of -X was negated
C18_Witness ==
    /\ act = "from_vector"
    /\ ~panicked
    /\ input = VNeg(VecX)
    /\ out # None
    /\ out[1][1] < 0
    /\ Abs(out[1][1] + PI \div 2) <= 1

\* C20: turning the zero vector into look angles gives an explicit error in
\* every build mode, never an ordinary (yaw, pitch)
C20_ZeroVectorIsAnError ==
    (act = "from_vector" /\ input = VecZERO) => (panicked /\ out = None)

\* C19: a lag weight outside [0, 1) is rejected when it is set (Smoother::new,
\* set_lag_weight, a controller's smoothing_weight), so that no Smoother
\* holds such a weight and the assertions of smooth_transform never fire
C19_LagWeightAlwaysValid == lag_weight_in_range(sm) /\ ~panicked

\* ------------------------------------------------------------------------
\* The input map of one plugin over frames of chosen raw input
\* ------------------------------------------------------------------------
MaxMapperFrames == 2

\* held buttons and keys, mouse motion and wheel events in combination
MapperInputs(p) ==
    CASE p = "fps" ->
            {Input(16, d, k, {}, <<>>) :
                d \in {Vec2(0, 0), Vec2(100 * ONE, -50 * ONE)},
                k \in {{}, {"W"}, {"A", "Space"}, {"W", "S", "D", "LShift"}}}
      [] p = "orbit" ->
            {Input(16, Vec2(100 * ONE, -50 * ONE), k, b, w) :
                k \in {{}, {"LControl"}},
                b \in {{}, {"Right"}},
                w \in {<<>>,
                       <<Wheel("Line", 0, ONE)>>,
                       <<Wheel("Pixel", 0, 53 * ONE)>>,
                       <<Wheel("Line", ONE, -ONE), Wheel("Pixel", 0, 106 * ONE)>>}}
      [] p = "unreal" ->
            {Input(16, kd[2], kd[1], b, w) :
                kd \in {<<{}, Vec2(0, 0)>>,
                        <<{}, Vec2(100 * ONE, -50 * ONE)>>,
                        <<{"W", "D"}, Vec2(100 * ONE, -50 * ONE)>>},
                b \in {{}, {"Left"}, {"Right"}, {"Middle"}, {"Left", "Right"}},
                w \in {<<>>, <<Wheel("Line", 0, ONE)>>, <<Wheel("Line", 0, -2 * ONE)>>}}

InitMapper ==
    /\ policy \in {"fps", "orbit", "unreal"}
    /\ cams \in {<<CameraBundle(c, <<-2000, 2500, 5000>>, <<0, 500, 0>>, "Perspective")>> :
                    c \in {ControllerDefault(policy),
                           [ControllerDefault(policy) EXCEPT !.enabled = FALSE]}}
    /\ events = <<>>
    /\ applied = <<>>
    /\ input = NoInput
    /\ ran = Systems(policy)
    /\ frame = 0
    /\ angles = LookAnglesDefault
    /\ ops = 0
    /\ debug_assertions = TRUE
    /\ panicked = FALSE
    /\ act = "init"
    /\ InitIdleSmoother

\* a frame starts: Events::update, the raw input of the frame; of the
\* frame's systems only the input map is followed
MapperFrame ==
    /\ frame < MaxMapperFrames
    /\ ran = Systems(policy)
    /\ frame' = frame + 1
    /\ ran' = Systems(policy) \ {"default_input_map"}
    /\ input' \in MapperInputs(policy)
    /\ events' = aged(events)
    /\ act' = "begin_frame"
    /\ UNCHANGED <<cams, applied, panicked>>
    /\ UNCHANGED frameVarsFixed

NextMapper ==
    \/ MapperFrame
    \/ FpsDefaultInputMap
    \/ OrbitDefaultInputMap
    \/ UnrealDefaultInputMap

SpecMapper == InitMapper /\ [][NextMapper]_vars

\* the events a step appended to the buffer, and their variants
Sent == SubSeq(events', Len(events) + 1, Len(events'))
SentTags == {Sent[i].tag : i \in DOMAIN Sent}

\* the sum of x + y over the at most two MouseWheel events of a frame
WheelTotal(w) ==
    (IF Len(w) >= 1 THEN w[1].x + w[1].y ELSE 0) + (IF Len(w) >= 2 THEN w[2].x + w[2].y ELSE 0)
MovementKeys == {"W", "A", "S", "D", "Q", "E"}
PanButtons(b) == "Middle" \in b \/ {"Left", "Right"} \subseteq b
UnrealMapperStep == policy = "unreal" /\ act' = "default_input_map" /\ cams[1].ctrl.enabled

\* C21 as stated: the held buttons select one mode per frame, no frame sends
\* events of two modes: left and right or middle pan, left alone is
\* locomotion, right alone rotates, and without a button only the wheel has
\* an effect, which is a pan
C21_ButtonsSelectOneMode ==
    [][UnrealMapperStep
       => /\ Cardinality(SentTags) <= 1
          /\ PanButtons(input.buttons) => SentTags \subseteq {"TranslateEye"}
          /\ input.buttons = {"Left"} => SentTags \subseteq {"Locomotion"}
          /\ input.buttons = {"Right"} => SentTags \subseteq {"Rotate"}
          /\ input.buttons = {}
                => /\ SentTags \subseteq {"TranslateEye"}
                   /\ WheelTotal(input.wheel) # 0 => SentTags = {"TranslateEye"}]_vars

\* C21: the held buttons select what the mouse does, one mode per frame:
\* Rotate is sent exactly when right alone is held; with no movement key
\* held, left and right or middle send nothing but a pan, left alone nothing
\* but a Locomotion, right alone nothing but the Rotate; without a button
\* nothing is sent but, for a wheel delta, a Locomotion along the view
C21_ButtonsSelectMouseMode ==
    [][UnrealMapperStep
       => /\ ("Rotate" \in SentTags) <=> (input.buttons = {"Right"})
          /\ input.buttons = {"Right"}
                => Sent[1] = Event("Rotate", V2Mul(cams[1].ctrl.rotate_sensitivity,
                                                   input.delta))
          /\ (input.keys \cap MovementKeys = {} /\ PanButtons(input.buttons))
                => SentTags \subseteq {"TranslateEye"}
          /\ (input.keys \cap MovementKeys = {} /\ input.buttons = {"Left"})
                => SentTags \subseteq {"Locomotion"}
          /\ (input.keys \cap MovementKeys = {} /\ input.buttons = {"Right"})
                => SentTags = {"Rotate"}
          /\ input.buttons = {}
                => Sent = IF WheelTotal(input.wheel) = 0 THEN <<>>
                          ELSE <<Event("Locomotion",
                                       Vec2(0, Mul(cams[1].ctrl.wheel_translate_sensitivity,
                                                   WheelTotal(input.wheel))))>>]_vars
\* no button, no key, one line of wheel: a Locomotion was sent
C21_Witness ==
    /\ policy = "unreal"
    /\ act = "default_input_map"
    /\ cams[1].ctrl.enabled
    /\ input.buttons = {}
    /\ input.keys = {}
    /\ input.wheel = <<Wheel("Line", 0, ONE)>>
    /\ frame = 1
    /\ events = <<Event("Locomotion", Vec2(0, ONE))>>

\* C22: the mouse buttons decide what the wheel does: with no button held a
\* non-zero wheel delta sends Locomotion(0, wheel_translate_sensitivity x
\* delta) and leaves keyboard_mvmt_sensitivity alone; with a button held the
\* wheel changes what is sent in no way and only moves
\* keyboard_mvmt_sensitivity
C22_ButtonsDecideWheelRole ==
    [][UnrealMapperStep
       => /\ (input.buttons = {} /\ WheelTotal(input.wheel) # 0)
                => /\ Sent = <<Event("Locomotion",
                                     Vec2(0, Mul(cams[1].ctrl.wheel_translate_sensitivity,
                                                 WheelTotal(input.wheel))))>>
                   /\ cams'[1].ctrl = cams[1].ctrl
          /\ input.buttons # {}
                => /\ Sent = unreal_default_input_map(cams[1].ctrl,
                                                      [input EXCEPT !.wheel = <<>>]).events
                   /\ cams'[1].ctrl.keyboard_mvmt_sensitivity
                        = Max(cams[1].ctrl.keyboard_mvmt_sensitivity
                                + Mul(cams[1].ctrl.keyboard_mvmt_wheel_sensitivity,
                                      WheelTotal(input.wheel)), 10)]_vars
\* right button held, one line of wheel: the speed went up, no Locomotion
C22_Witness ==
    /\ policy = "unreal"
    /\ act = "default_input_map"
    /\ frame = 1
    /\ input.buttons = {"Right"}
    /\ input.keys = {}
    /\ input.wheel = <<Wheel("Line", 0, ONE)>>
    /\ cams[1].ctrl.keyboard_mvmt_sensitivity = 200
    /\ \A i \in DOMAIN events : events[i].tag = "Rotate"
    /\ events # <<>>

\* C24: after a frame of the unreal-style input map with the controller
\* enabled and a mouse button held, keyboard_mvmt_sensitivity is
\* max(0.01, previous + keyboard_mvmt_wheel_sensitivity x wheel delta), so
\* that scrolling with a button held never takes it below 0.01
C24_KeyboardSpeedFloor ==
    [][(UnrealMapperStep /\ input.buttons # {})
       => /\ cams'[1].ctrl.keyboard_mvmt_sensitivity
               = (IF cams[1].ctrl.keyboard_mvmt_sensitivity
                        + Mul(cams[1].ctrl.keyboard_mvmt_wheel_sensitivity,
                              WheelTotal(input.wheel)) < 10
                  THEN 10
                  ELSE cams[1].ctrl.keyboard_mvmt_sensitivity
                        + Mul(cams[1].ctrl.keyboard_mvmt_wheel_sensitivity,
                              WheelTotal(input.wheel)))
          /\ cams'[1].ctrl.keyboard_mvmt_sensitivity >= 10]_vars
\* two lines of scroll down took the speed from 0.1 to the floor, and a
\* second frame of it left it there
C24_Witness ==
    /\ policy = "unreal"
    /\ act = "default_input_map"
    /\ frame = 2
    /\ input.buttons # {}
    /\ input.wheel = <<Wheel("Line", 0, -2 * ONE)>>
    /\ cams[1].ctrl.keyboard_mvmt_sensitivity = 10

\* the events the FPS input map is to send for a snapshot: the Rotate, then
\* one TranslateEye per held key in the order W, A, S, D, LShift, Space
FpsKeyOrder == <<"W", "A", "S", "D", "LShift", "Space">>
FpsKeyDir(k) ==
    CASE k = "W" -> <<0, 0, ONE>>
      [] k = "A" -> <<ONE, 0, 0>>
      [] k = "S" -> <<0, 0, -ONE>>
      [] k = "D" -> <<-ONE, 0, 0>>
      [] k = "LShift" -> <<0, -ONE, 0>>
      [] k = "Space" -> <<0, ONE, 0>>
FpsEventsInOrder(sent, ctrl, inp) ==
    LET pressed == SelectSeq(FpsKeyOrder, LAMBDA k : k \in inp.keys)
    IN  /\ Len(sent) = 1 + Len(pressed)
        /\ sent[1] = Event("Rotate", V2Mul(ctrl.mouse_rotate_sensitivity, inp.delta))
        /\ \A i \in 1..Len(pressed) :
              sent[i + 1] = Event("TranslateEye",
                                  VScale(ctrl.translate_sensitivity, FpsKeyDir(pressed[i])))

\* what a step of an input map sends is a function of the controller and of
\* the frame's snapshot, appended to the buffer in the order of the code
MapperSendsInOrder ==
    /\ SubSeq(events', 1, Len(events)) = events
    /\ policy = "fps" /\ cams[1].ctrl.enabled => FpsEventsInOrder(Sent, cams[1].ctrl, input)
    /\ policy = "fps" /\ ~cams[1].ctrl.enabled => Sent = <<>>
    /\ policy = "orbit"
          => Sent = IF cams[1].ctrl.enabled THEN orbit_default_input_map(cams[1].ctrl, input)
                    ELSE <<>>
    /\ policy = "unreal"
          => Sent = IF cams[1].ctrl.enabled
                    THEN unreal_default_input_map(cams[1].ctrl, input).events
                    ELSE <<>>

\* C25 as stated: the input map of every policy is pure and keeps the
\* order: a snapshot and a configuration give the same events in the same
\* order, and neither the controller nor the viewpoint is modified
C25_MapperIsPure ==
    [][act' = "default_input_map" => (MapperSendsInOrder /\ cams' = cams)]_vars

\* C25: as above, but the unreal-style input map stores a new
\* keyboard_mvmt_sensitivity in its controller; nothing else of a camera is
\* modified by an input map
C25_MapperWritesOnlyKeyboardSpeed ==
    [][act' = "default_input_map"
       => /\ MapperSendsInOrder
          /\ policy # "unreal" => cams' = cams
          /\ cams' = [cams EXCEPT ![1].ctrl.keyboard_mvmt_sensitivity =
                                     cams'[1].ctrl.keyboard_mvmt_sensitivity]]_vars
\* four keys held: the FPS input map sent five events
C25_Witness ==
    /\ policy = "fps"
    /\ act = "default_input_map"
    /\ frame = 2
    /\ input.keys = {"W", "S", "D", "LShift"}
    /\ Len(SelectSeq(events, LAMBDA e : e.age = 0)) = 5
    /\ events[Len(events)].v = <<0, -500, 0>>

\* 1 - scroll x mouse_wheel_zoom_sensitivity for one MouseWheel event, and
\* the product of it over the at most two events of a frame
ZoomFactor(ctrl, w) ==
    ONE - Mul(IF w.unit = "Line" THEN w.y ELSE Div(w.y, ctrl.pixels_per_line),
              ctrl.mouse_wheel_zoom_sensitivity)
ZoomProduct(ctrl, wheel) ==
    IF Len(wheel) = 0 THEN ONE
    ELSE IF Len(wheel) = 1 THEN ZoomFactor(ctrl, wheel[1])
    ELSE Mul(ZoomFactor(ctrl, wheel[1]), ZoomFactor(ctrl, wheel[2]))

\* C27: in a frame with an enabled orbit controller the input map sends
\* exactly one Zoom, whose scalar is the product over the frame's wheel
\* events of 1 - scroll x mouse_wheel_zoom_sensitivity, scroll being y for
\* line units and y / pixels_per_line for pixel units; without a wheel event
\* the scalar is 1
C27_OneZoomPerFrame ==
    [][(policy = "orbit" /\ act' = "default_input_map" /\ FirstEnabled # 0)
       => /\ Len(SelectSeq(Sent, LAMBDA e : e.tag = "Zoom")) = 1
          /\ Sent[Len(Sent)].tag = "Zoom"
          /\ Sent[Len(Sent)].v[1] = ZoomProduct(cams[FirstEnabled].ctrl, input.wheel)
          /\ input.wheel = <<>> => Sent[Len(Sent)].v[1] = ONE]_vars
\* a line event and a pixel event in one frame: 1.2 x 0.6
C27_Witness ==
    /\ policy = "orbit"
    /\ act = "default_input_map"
    /\ FirstEnabled # 0
    /\ Len(input.wheel) = 2
    /\ events[Len(events)].tag = "Zoom"
    /\ events[Len(events)].age = 0
    /\ events[Len(events)].v[1] = 720

\* the events the input map of a policy sends with a controller's settings
MapperEvents(p, ctrl, inp) ==
    CASE p = "fps" -> fps_default_input_map(ctrl, inp)
      [] p = "orbit" -> orbit_default_input_map(ctrl, inp)
      [] p = "unreal" -> unreal_default_input_map(ctrl, inp).events

\* C23: with several cameras of one policy, the input map and the control
\* update of a frame act on at most one camera; when a controller is enabled
\* the camera driven is the first enabled one, whose settings the input map
\* uses and to which the control update applies the events; the other
\* cameras are left as they were
C23_FirstEnabledCameraDriven ==
    [][/\ act' \in {"default_input_map", "control_system"}
          => \A c \in DOMAIN cams : c # FirstEnabled => cams'[c] = cams[c]
       /\ (act' = "default_input_map" /\ FirstEnabled # 0)
          => Sent = MapperEvents(policy, cams[FirstEnabled].ctrl, input)
       /\ (act' = "control_system" /\ FirstEnabled # 0)
          => applied' = events /\ events' = <<>>]_vars

\* the point at the distance r from a point p along the look angles la
AlongAngles(p, r, la) == VAdd(p, VScale(r, unit_vector(la)))
OnlyOrbit(evs) ==
    /\ Len(SelectSeq(evs, LAMBDA e : e.tag = "Orbit")) = 1
    /\ evs[1].tag = "Orbit"
    /\ \A i \in DOMAIN evs : i > 1 => evs[i].tag = "Zoom" /\ evs[i].v[1] = ONE

\* C26: an FPS or unreal-style update whose only event is a Rotate leaves
\* the eye where it is and puts the target at eye + radius x
\* unit_vector(angles), the radius being the one before; an orbit update
\* whose only event besides Zoom(1) is an Orbit leaves the target where it
\* is and puts the eye at target + radius x unit_vector(angles), the radius
\* being the one before
C26_RotationPolarity ==
    [][/\ (/\ policy \in {"fps", "unreal"}
           /\ act' = "control_system"
           /\ cams[1].ctrl.enabled
           /\ look_direction(cams[1].lt) # None
           /\ Len(events) = 1
           /\ events[1].tag = "Rotate")
          => /\ ~panicked'
             /\ cams'[1].lt.eye = cams[1].lt.eye
             /\ Near(radius(cams'[1].lt), radius(cams[1].lt))
             /\ NearVec(cams'[1].lt.target,
                        AlongAngles(cams[1].lt.eye, radius(cams[1].lt),
                                    add_pitch(add_yaw(from_vector(look_direction(cams[1].lt)[1]),
                                                      -events[1].v[1]),
                                              -events[1].v[2])),
                        3)
       /\ (/\ policy = "orbit"
           /\ act' = "control_system"
           /\ FirstEnabled # 0
           /\ look_direction(cams[FirstEnabled].lt) # None
           /\ radius(cams[FirstEnabled].lt) >= min_radius
           /\ radius(cams[FirstEnabled].lt) <= max_radius
           /\ OnlyOrbit(events))
          => /\ ~panicked'
             /\ cams'[FirstEnabled].lt.target = cams[FirstEnabled].lt.target
             /\ Near(radius(cams'[FirstEnabled].lt), radius(cams[FirstEnabled].lt))
             /\ NearVec(cams'[FirstEnabled].lt.eye,
                        AlongAngles(cams[FirstEnabled].lt.target, radius(cams[FirstEnabled].lt),
                                    add_pitch(add_yaw(from_vector(VNeg(look_direction(
                                                            cams[FirstEnabled].lt)[1])),
                                                      Mul(input.dt, -events[1].v[1])),
                                              Mul(input.dt, events[1].v[2]))),
                        3)]_vars
\* a Rotate turned the view of the FPS camera about its eye
C26_Witness ==
    /\ policy = "fps"
    /\ act = "control_system"
    /\ ~panicked
    /\ Len(applied) = 1
    /\ applied[1].tag = "Rotate"
    /\ applied[1].v # Vec2(0, 0)
    /\ cams[1].lt.eye = <<-2000, 2500, 5000>>
    /\ ~NearVec(cams[1].lt.target, <<0, 500, 0>>, 100)

\* C28: the ortho_setup flag of the active orbit controller goes from false
\* to true in the first frame in which the setup system runs and never goes
\* back; the scale of the LookTransform is set from the scale of the
\* orthographic projection then, once, and no later run of the setup system
\* writes it
C28_OrthoScaleCapturedOnce ==
    [][policy = "orbit" =>
       /\ \A c \in DOMAIN cams : cams[c].ctrl.ortho_setup => cams'[c].ctrl.ortho_setup
       /\ (act' = "setup_orthographic_transform" /\ FirstEnabled # 0)
          => /\ cams'[FirstEnabled].ctrl.ortho_setup
             /\ cams'[FirstEnabled].lt.scale =
                    IF cams[FirstEnabled].ctrl.ortho_setup
                    THEN cams[FirstEnabled].lt.scale
                    ELSE IF cams[FirstEnabled].proj = "Orthographic"
                    THEN projection_scale(cams[FirstEnabled].proj)
                    ELSE cams'[FirstEnabled].lt.scale]_vars

\* ------------------------------------------------------------------------
\* frames without input: the input map and the control system of one camera
\* ------------------------------------------------------------------------
MaxIdleFrames == 3

\* the view of the examples, the same view from the other side, a view
\* along +Z, a view almost straight down, and for the orbit controller the
\* view of the examples under an orthographic projection
IdleCams(p) ==
    {<<CameraBundle(ControllerDefault(p), <<-2000, 2500, 5000>>, <<0, 500, 0>>, "Perspective")>>,
     <<CameraBundle(ControllerDefault(p), <<3000, 1000, -1000>>, VecZERO, "Perspective")>>,
     <<CameraBundle(ControllerDefault(p), VecZERO, VScale(AxisDistance(p), VecZ), "Perspective")>>,
     <<CameraBundle(ControllerDefault(p), <<0, 5000, 0>>, <<0, 0, 10>>, "Perspective")>>}
    \cup (IF p = "orbit"
          THEN {<<CameraBundle(ControllerDefault(p), <<-2000, 2500, 5000>>, <<0, 500, 0>>,
                               "Orthographic")>>}
          ELSE {})

InitIdle ==
    /\ policy \in {"fps", "orbit", "unreal"}
    /\ cams \in IdleCams(policy)
    /\ events = <<>>
    /\ applied = <<>>
    /\ input = NoInput
    /\ ran = Systems(policy)
    /\ frame = 0
    /\ angles = LookAnglesDefault
    /\ ops = 0
    /\ debug_assertions \in BOOLEAN
    /\ panicked = FALSE
    /\ act = "init"
    /\ InitIdleSmoother

\* a frame starts: Events::update; no key, no button, no mouse motion, no
\* wheel; of the frame's systems the input map and the control system are
\* followed
IdleFrame ==
    /\ frame < MaxIdleFrames
    /\ ~panicked
    /\ ran = Systems(policy)
    /\ frame' = frame + 1
    /\ ran' = Systems(policy) \ {"default_input_map", "control_system"}
    /\ input' = NoInput
    /\ events' = aged(events)
    /\ applied' = <<>>
    /\ act' = "begin_frame"
    /\ UNCHANGED <<cams, panicked>>
    /\ UNCHANGED frameVarsFixed

NextIdle ==
    \/ IdleFrame
    \/ FpsDefaultInputMap
    \/ FpsControlSystem
    \/ OrbitDefaultInputMap
    \/ OrbitControlSystem
    \/ UnrealDefaultInputMap
    \/ UnrealControlSystem

SpecIdle == InitIdle /\ [][NextIdle]_vars

\* events that carry no input: Rotate(0) and Zoom(1)
IdleEvents(evs) ==
    \A i \in DOMAIN evs :
        \/ evs[i].tag = "Rotate" /\ evs[i].v = Vec2(0, 0)
        \/ evs[i].tag = "Zoom" /\ evs[i].v[1] = ONE
\* the angle between the view of a LookTransform and the horizontal plane
Steepness(lt) == Abs(yaw_and_pitch_from_vector(look_direction(lt)[1])[2])
\* a control update of an enabled controller that reads no input
IdleControlStep ==
    /\ act' = "control_system"
    /\ Controlled # 0
    /\ cams[Controlled].ctrl.enabled
    /\ look_direction(cams[Controlled].lt) # None
    /\ IdleEvents(events)
Unmoved(tol) ==
    /\ ~panicked'
    /\ NearVec(cams'[Controlled].lt.eye, cams[Controlled].lt.eye, tol)
    /\ NearVec(cams'[Controlled].lt.target, cams[Controlled].lt.target, tol)

\* C29 as stated: a control update that reads no input (no events, or only
\* Rotate(0), or only Zoom(1)) leaves the eye and the target of every
\* LookTransform with eye # target where they are
C29_IdleFrameIsNoOp ==
    [][IdleControlStep => Unmoved(3)]_vars

\* C29, amended: a control update that reads no input leaves the eye and
\* the target where they are when the view is no steeper than pi/2 - 0.01
\* and, for a perspective orbit camera, the radius is within [0.001, 1e6]
C29_IdleFrameKeepsGentleView ==
    [][(/\ IdleControlStep
        /\ Steepness(cams[Controlled].lt) <= PI \div 2 - up_eps
        /\ policy = "orbit" => /\ radius(cams[Controlled].lt) >= min_radius
                               /\ radius(cams[Controlled].lt) <= max_radius)
       => Unmoved(3)]_vars
\* the third frame without input in a row has left the view of the examples
\* where it was
C29_Witness ==
    /\ frame = MaxIdleFrames
    /\ act = "control_system"
    /\ ~panicked
    /\ IdleEvents(applied)
    /\ cams[1].ctrl.enabled
    /\ NearVec(cams[1].lt.eye, <<-2000, 2500, 5000>>, 3 * MaxIdleFrames)
    /\ NearVec(cams[1].lt.target, <<0, 500, 0>>, 3 * MaxIdleFrames)

====
